---- MODULE Spec2Model ----
(***************************************************************************)
(* PPT-Compatible MP4 Converter (src/mp4_converter.py).                    *)
(*                                                                         *)
(* Five specifications over one set of variables:                          *)
(*   Spec       the application: the Tk UI thread (convert, poll_done,     *)
(*              drain_log), the ConverterWorker threads it starts and the  *)
(*              file system they touch;                                    *)
(*   SpecBatch  Spec without the log view (drain_log), for the properties  *)
(*              of the batch control that do not read it;                  *)
(*   SpecRun    one batch: a worker just started by convert, with the      *)
(*              timers of the UI thread (drain_log, poll_done);            *)
(*   SpecTempo  build_atempo_expr applied to speeds drawn from a grid;     *)
(*   SpecCmd    parse_speed and build_ffmpeg_cmd applied to option         *)
(*              combinations.                                              *)
(*                                                                         *)
(* Floats are modelled as exact rationals: a speed is an integer number of *)
(* 1/SpeedDen units, a tempo factor is an integer number of thousandths    *)
(* (the code rounds the residual to 3 decimals).  round() at an exact      *)
(* decimal tie depends on the binary representation of the float, so a tie *)
(* is resolved by a nondeterministic flag.                                 *)
(***************************************************************************)
EXTENDS Integers, Sequences, FiniteSets, TLC

VARIABLES
    \* ---- App (UI thread) ----
    files,          \* self.files: the list the user has assembled with
                    \* add_files and clear_files before pressing Convert
    convert_btn,    \* state of self.convert_btn: "normal" | "disabled"
    progress,       \* self.progress: [value, maximum]
    status,         \* self.status (StringVar)
    dialog,         \* the modal messagebox that is open, or "none"
    pollPending,    \* number of scheduled poll_done callbacks
    uiPc,           \* "idle" | "draining" (inside drain_log's while loop)
    log_q,          \* self.log_q (queue.Queue)
    log_box,        \* lines inserted in self.log_box
    \* ---- worker threads ----
    workers,        \* the ConverterWorker threads: the running ones and
                    \* those that ended since the last Convert
    \* ---- environment ----
    onPath,         \* the executables shutil.which resolves
    fsInputs,       \* input files that exist
    fsOut,          \* output files that exist
    fsDirs,         \* directories that exist
    \* ---- observation ----
    nTasks,         \* tasks handed to workers so far
    \* ---- pure-function harness (SpecTempo, SpecCmd) ----
    callPc,         \* "none" | "ready" | "parsed" | "returned"
    callArgs,       \* the arguments of the call
    callRet         \* what the call returned

appVars == <<files, convert_btn, progress, status, dialog,
             pollPending, uiPc, log_q, log_box>>
envVars == <<onPath, fsInputs, fsOut, fsDirs>>
callVars == <<callPc, callArgs, callRet>>
obsVars == <<nTasks>>
vars == <<appVars, workers, envVars, obsVars, callVars>>

----------------------------------------------------------------------------
\* Bounds of the model.

\* Speeds of SpecTempo: TempoStep, 2*TempoStep, ..., MaxTempoK*TempoStep.
MaxTempoK == 9000
\* Length of the file list, and tasks handed to workers in one behaviour,
\* all batches together.
MaxTasks == 2

----------------------------------------------------------------------------
\* Numbers.

\* Units per 1.0 of a tempo factor: round(remaining, 3).
Milli == 1000
\* Units per 1.0 of a speed (a speed n stands for n / SpeedDen): 10^-7, fine
\* enough for the rel_tol=1e-6 comparison of build_ffmpeg_cmd.
SpeedDen == 10000 * Milli
\* Grid of SpecTempo, in speed units: 0.0005, so that every second grid
\* point lies exactly between two 3-decimal values.
TempoStep == SpeedDen \div (2 * Milli)

Abs(x) == IF x < 0 THEN -x ELSE x
Max2(a, b) == IF a >= b THEN a ELSE b

RECURSIVE Gcd(_, _)
Gcd(a, b) == IF b = 0 THEN a ELSE Gcd(b, a % b)

\* math.isclose(speed, 1.0, rel_tol=1e-6) of build_ffmpeg_cmd, speed in units.
\* (|n - SpeedDen| * 10^6 overflows 32 bits, so the quotient form is used:
\* for integers, x * k <= y  iff  x <= y \div k.)
IsCloseSpeedOne(n) == Abs(n - SpeedDen) <= Max2(Abs(n), SpeedDen) \div 1000000

\* math.isclose(remaining, 1.0, rel_tol=1e-3, abs_tol=1e-3) for a residual of
\* r thousandths.  In exact arithmetic 0.999, 1.0 and 1.001 are all close; in
\* binary floating point 1.0 - 0.999 = 0.0010000000000000009 > 0.001, so
\* 0.999 is not close, while 1.001 - 1.0 < 0.001001 is.
IsCloseMilliOne(r) == r = Milli \/ r = Milli + 1

\* round(): the integer nearest to num / m.  tieUp resolves an exact tie.
RoundDiv(num, m, tieUp) ==
    LET q == num \div m
        r == num % m
    IN  IF 2 * r > m THEN q + 1
        ELSE IF 2 * r < m THEN q
        ELSE IF tieUp THEN q + 1 ELSE q

----------------------------------------------------------------------------
\* build_atempo_expr (lines 48-71).

\* remaining = num / den: den = SpeedDen * 2^k after k halvings (line 61),
\* num = speed * 2^k after k doublings (line 64).
RECURSIVE AtempoHalve(_, _, _)
AtempoHalve(num, den, factors) ==
    IF num > 2 * den
    THEN AtempoHalve(num, den * 2, Append(factors, 2 * Milli))
    ELSE [num |-> num, den |-> den, factors |-> factors]

RECURSIVE AtempoDouble(_, _, _)
AtempoDouble(num, den, factors) ==
    IF 2 * num < den
    THEN AtempoDouble(num * 2, den, Append(factors, Milli \div 2))
    ELSE [num |-> num, den |-> den, factors |-> factors]

\* Mutation of build_atempo_expr: the residual is rounded to one decimal,
\* round(remaining, 1), instead of three.
build_atempo_expr_Round1(speed, tieUp) ==
    LET s  == IF speed <= 0 THEN SpeedDen ELSE speed
        h  == AtempoHalve(s, SpeedDen, <<>>)
        d  == AtempoDouble(h.num, h.den, h.factors)
        r  == RoundDiv(d.num, d.den \div 10, tieUp) * (Milli \div 10)
        fs == IF ~IsCloseMilliOne(r) THEN Append(d.factors, r) ELSE d.factors
    IN  IF fs # <<>> THEN fs ELSE <<Milli>>

\* The chain of tempo factors, in thousandths, of the returned expression
\* "atempo=f1,atempo=f2,...".
build_atempo_expr(speed, tieUp) ==
    LET s  == IF speed <= 0 THEN SpeedDen ELSE speed
        h  == AtempoHalve(s, SpeedDen, <<>>)
        d  == AtempoDouble(h.num, h.den, h.factors)
        \* remaining = d.num / d.den; in thousandths: d.num / (d.den / 1000)
        r  == RoundDiv(d.num, d.den \div Milli, tieUp)
        fs == IF ~IsCloseMilliOne(r) THEN Append(d.factors, r) ELSE d.factors
    IN  IF fs # <<>> THEN fs ELSE <<Milli>>

----------------------------------------------------------------------------
\* Paths, profiles, speeds.

NoPath == [dir |-> "", base |-> "", ext |-> ""]

\* The input files the user can select.  clip.mov and clip.avi lie in
\* different folders and map to the same output name.
Inputs == { [dir |-> "a", base |-> "clip", ext |-> "mov"],
            [dir |-> "b", base |-> "clip", ext |-> "avi"],
            [dir |-> "a", base |-> "talk", ext |-> "mkv"] }

\* f"{base}_ppt.mp4" joined to out_dir (lines 91-93).
suggest_output_path(in_path, out_root) ==
    [dir |-> out_root, base |-> in_path.base, ext |-> "_ppt.mp4"]

\* PROFILES (lines 73-77).
PROFILES ==
    [ Baseline |-> [profile |-> "baseline", level |-> "3.1", preset |-> "veryfast", crf |-> "20"],
      Main     |-> [profile |-> "main",     level |-> "4.0", preset |-> "faster",   crf |-> "20"],
      High     |-> [profile |-> "high",     level |-> "4.1", preset |-> "fast",     crf |-> "18"] ]

ProfileNames == DOMAIN PROFILES

\* SPEED_PRESETS (line 79); "Custom" stands for the last entry, which the
\* source writes with an ellipsis character.
SPEED_PRESETS == <<"0.5x", "0.75x", "1.0x", "1.25x", "1.5x", "2.0x", "2.5x",
                   "3.0x", "4.0x", "Custom">>

\* What the user may have typed in the custom-speed entry.
CustomInputs == {"1.0", "1.15x", " 1.5X ", "abc", "-3", "0", "nan",
                 "1.0000001", "0.9999995", "1.00002", "0.1", "8"}

\* float(text.strip().lower().replace("x", "")): the value in speed units, or
\* a ValueError; nan compares false with everything.
ParseFloat(text) ==
    CASE text \in {"0.5x", "0.5"}    -> [ok |-> TRUE,  nan |-> FALSE, val |-> SpeedDen \div 2]
      [] text \in {"0.75x"}          -> [ok |-> TRUE,  nan |-> FALSE, val |-> (SpeedDen \div 4) * 3]
      [] text \in {"1.0x", "1.0"}    -> [ok |-> TRUE,  nan |-> FALSE, val |-> SpeedDen]
      [] text \in {"1.25x"}          -> [ok |-> TRUE,  nan |-> FALSE, val |-> (SpeedDen \div 4) * 5]
      [] text \in {"1.5x", " 1.5X "} -> [ok |-> TRUE,  nan |-> FALSE, val |-> (SpeedDen \div 2) * 3]
      [] text \in {"2.0x"}           -> [ok |-> TRUE,  nan |-> FALSE, val |-> SpeedDen * 2]
      [] text \in {"2.5x"}           -> [ok |-> TRUE,  nan |-> FALSE, val |-> (SpeedDen \div 2) * 5]
      [] text \in {"3.0x"}           -> [ok |-> TRUE,  nan |-> FALSE, val |-> SpeedDen * 3]
      [] text \in {"4.0x"}           -> [ok |-> TRUE,  nan |-> FALSE, val |-> SpeedDen * 4]
      [] text = "1.15x"              -> [ok |-> TRUE,  nan |-> FALSE, val |-> (SpeedDen \div 100) * 115]
      [] text = "-3"                 -> [ok |-> TRUE,  nan |-> FALSE, val |-> 0 - SpeedDen * 3]
      [] text = "0"                  -> [ok |-> TRUE,  nan |-> FALSE, val |-> 0]
      [] text = "nan"                -> [ok |-> TRUE,  nan |-> TRUE,  val |-> 0]
      [] text = "1.0000001"          -> [ok |-> TRUE,  nan |-> FALSE, val |-> SpeedDen + 1]
      [] text = "0.9999995"          -> [ok |-> TRUE,  nan |-> FALSE, val |-> SpeedDen - 5]
      [] text = "1.00002"            -> [ok |-> TRUE,  nan |-> FALSE, val |-> SpeedDen + 200]
      [] text = "0.1"                -> [ok |-> TRUE,  nan |-> FALSE, val |-> SpeedDen \div 10]
      [] text = "8"                  -> [ok |-> TRUE,  nan |-> FALSE, val |-> SpeedDen * 8]
      [] OTHER                       -> [ok |-> FALSE, nan |-> FALSE, val |-> 0]

\* parse_speed (lines 81-89).
parse_speed(preset, custom) ==
    IF preset = "Custom"
    THEN LET v == ParseFloat(custom)
         IN  IF ~v.ok THEN SpeedDen
             ELSE IF ~v.nan /\ v.val > 0 THEN v.val ELSE SpeedDen
    ELSE ParseFloat(preset).val

----------------------------------------------------------------------------
\* build_ffmpeg_cmd (lines 97-148).  An argument is a literal token, a path
\* or a filter chain; a filter is a name and, for setpts and atempo, a number.

Tok(t)      == [kind |-> "tok",    tok |-> t,  path |-> NoPath, filt |-> <<>>]
PathArg(p)  == [kind |-> "path",   tok |-> "", path |-> p,      filt |-> <<>>]
FiltArg(fs) == [kind |-> "filter", tok |-> "", path |-> NoPath, filt |-> fs]

Toks(ts) == [i \in 1..Len(ts) |-> Tok(ts[i])]

Filter(name, num) == [name |-> name, num |-> num]

\* ensure_even_dimensions_filter (lines 44-46).
ensure_even_dimensions_filter == Filter("scale=trunc(iw/2)*2:trunc(ih/2)*2,fps=30", 0)

AtempoFilters(chain) == [i \in 1..Len(chain) |-> Filter("atempo=", chain[i])]

\* The audio tail shared by both branches (lines 133, 145).
AacArgs == Toks(<<"-c:a", "aac", "-b:a", "128k", "-ar", "48000", "-ac", "2">>)

\* Mutation of build_ffmpeg_cmd: the audio filters are built before the
\* add_silence test and applied in both branches.
build_ffmpeg_cmd_FilterSilence(inp, outp, profile_cfg, speed, loud_norm, add_silence, tieUp) ==
    LET vf == (IF ~IsCloseSpeedOne(speed) THEN <<Filter("setpts=PTS/", speed)>> ELSE <<>>)
              \o <<ensure_even_dimensions_filter>>
        a_filters ==
              (IF loud_norm THEN <<Filter("loudnorm=I=-16:TP=-1.5:LRA=11", 0)>> ELSE <<>>)
              \o (IF ~IsCloseSpeedOne(speed)
                  THEN AtempoFilters(build_atempo_expr(speed, tieUp)) ELSE <<>>)
        fa == IF a_filters # <<>> THEN <<Tok("-filter:a"), FiltArg(a_filters)>> ELSE <<>>
        base == Toks(<<"ffmpeg", "-y", "-i">>) \o <<PathArg(inp)>>
                \o Toks(<<"-map_metadata", "-1", "-movflags", "+faststart", "-vsync", "vfr", "-vf">>)
                \o <<FiltArg(vf)>>
                \o Toks(<<"-r", "30", "-c:v", "libx264",
                          "-profile:v", profile_cfg.profile, "-level", profile_cfg.level,
                          "-pix_fmt", "yuv420p",
                          "-preset", profile_cfg.preset, "-crf", profile_cfg.crf>>)
    IN  IF add_silence
        THEN base
             \o Toks(<<"-f", "lavfi", "-t", "99999", "-i",
                       "anullsrc=channel_layout=stereo:sample_rate=48000", "-shortest">>)
             \o fa \o AacArgs
             \o Toks(<<"-map", "0:v:0", "-map", "1:a:0">>)
             \o <<PathArg(outp)>>
        ELSE base \o fa \o AacArgs \o <<PathArg(outp)>>

build_ffmpeg_cmd(inp, outp, profile_cfg, speed, loud_norm, add_silence, tieUp) ==
    LET \* lines 105-110
        vf == (IF ~IsCloseSpeedOne(speed) THEN <<Filter("setpts=PTS/", speed)>> ELSE <<>>)
              \o <<ensure_even_dimensions_filter>>
        \* lines 112-126
        base == Toks(<<"ffmpeg", "-y", "-i">>) \o <<PathArg(inp)>>
                \o Toks(<<"-map_metadata", "-1", "-movflags", "+faststart", "-vsync", "vfr", "-vf">>)
                \o <<FiltArg(vf)>>
                \o Toks(<<"-r", "30", "-c:v", "libx264",
                          "-profile:v", profile_cfg.profile, "-level", profile_cfg.level,
                          "-pix_fmt", "yuv420p",
                          "-preset", profile_cfg.preset, "-crf", profile_cfg.crf>>)
        \* lines 138-142
        a_filters ==
              (IF loud_norm THEN <<Filter("loudnorm=I=-16:TP=-1.5:LRA=11", 0)>> ELSE <<>>)
              \o (IF ~IsCloseSpeedOne(speed)
                  THEN AtempoFilters(build_atempo_expr(speed, tieUp)) ELSE <<>>)
    IN  IF add_silence
        THEN \* lines 130-135
             base
             \o Toks(<<"-f", "lavfi", "-t", "99999", "-i",
                       "anullsrc=channel_layout=stereo:sample_rate=48000", "-shortest">>)
             \o AacArgs
             \o Toks(<<"-map", "0:v:0", "-map", "1:a:0">>)
             \o <<PathArg(outp)>>
        ELSE \* lines 143-145
             base
             \o (IF a_filters # <<>> THEN <<Tok("-filter:a"), FiltArg(a_filters)>> ELSE <<>>)
             \o AacArgs
             \o <<PathArg(outp)>>

----------------------------------------------------------------------------
\* The application state.

\* Output folders the user can have chosen: the home folder (the default),
\* a folder that does not exist yet, and "" (the entry left empty).
OutDirs == {"home", "new", ""}

\* os.path.basename(inp)
basename(path) == [dir |-> "", base |-> path.base, ext |-> path.ext]

\* os.path.dirname(outp)
dirname(path) == path.dir

Status(text, path, i, n) == [text |-> text, path |-> path, i |-> i, n |-> n]

\* A line of the log: its tag and its text (a reason, a path, a command).
\* n numbers the lines in the order they are put, so that two lines with the
\* same text are still two lines.
Line(tag, why, path, cmd) ==
    [tag |-> tag, why |-> why, path |-> path, cmd |-> cmd,
     n |-> Len(log_box) + Len(log_q) + 1]

\* Mutation of which_ffmpeg: only the encoder is looked up.
which_ffmpeg_EncoderOnly == "ffmpeg" \in onPath

\* which_ffmpeg (lines 24-25).
which_ffmpeg == "ffmpeg" \in onPath /\ "ffprobe" \in onPath

\* Mutation of ConverterWorker.log: the line is put at the head of the queue.
log_Lifo(q, msg) == <<msg>> \o q

\* ConverterWorker.log (lines 163-164): queue.Queue.put on an unbounded queue.
log(q, msg) == Append(q, msg)

----------------------------------------------------------------------------
\* Probe adapter.

\* How one run of ffprobe can end: Popen raises (the executable cannot be
\* started), it exits non-zero, its output is not JSON, the JSON is not an
\* object, the object has no "streams" key, "streams" is not a list of
\* objects, the list holds no audio stream, the list holds one.
ProbeOutcomes == {"spawn_error", "exit_nonzero", "malformed", "not_object",
                  "no_streams_key", "bad_streams", "no_audio", "audio"}

ProbeFailures == ProbeOutcomes \ {"no_audio", "audio"}

\* has_audio_stream (lines 32-42): run_cmd is called outside the try block,
\* so an exception of Popen propagates; everything after it is caught.
has_audio_stream(outcome) ==
    CASE outcome = "spawn_error"    -> [raised |-> TRUE,  value |-> FALSE]
      [] outcome = "exit_nonzero"   -> [raised |-> FALSE, value |-> FALSE]
      [] outcome = "malformed"      -> [raised |-> FALSE, value |-> FALSE]
      [] outcome = "not_object"     -> [raised |-> FALSE, value |-> FALSE]
      [] outcome = "no_streams_key" -> [raised |-> FALSE, value |-> FALSE]
      [] outcome = "bad_streams"    -> [raised |-> FALSE, value |-> FALSE]
      [] outcome = "no_audio"       -> [raised |-> FALSE, value |-> FALSE]
      [] outcome = "audio"          -> [raised |-> FALSE, value |-> TRUE]

----------------------------------------------------------------------------
\* ConverterWorker.

\* ConverterWorker.__init__ (lines 153-161).  idx and pc are the position of
\* run; probe and silent are its locals for the task at hand; emitted lists
\* the (current, total) pairs passed to progress_cb; outcomes lists, per task
\* index, the tags of the SKIP, OK and ERROR lines put; probed and encoded
\* hold the tasks for which the probe, and the encoder, were started.
NewWorker(tasks, profile_name, speed_preset, speed_custom, normalize, overw) ==
    [ tasks           |-> tasks,
      profile         |-> PROFILES[profile_name],
      speed           |-> parse_speed(speed_preset, speed_custom),
      normalize_audio |-> normalize,
      overwrite       |-> overw,
      idx             |-> IF tasks = <<>> THEN 0 ELSE 1,
      pc              |-> IF tasks = <<>> THEN "done" ELSE "L170",
      probe           |-> "none",
      silent          |-> FALSE,
      emitted         |-> <<>>,
      outcomes        |-> <<>>,
      probed          |-> {},
      encoded         |-> {} ]

Workers == 1..Len(workers)

Total(w) == Len(workers[w].tasks)
Inp(w)   == workers[w].tasks[workers[w].idx][1]
Outp(w)  == workers[w].tasks[workers[w].idx][2]

\* The encoder processes that are running.
Encoding == { w \in Workers : workers[w].pc = "L189wait" }

\* The worker threads that have not ended.
Alive == { w \in Workers : workers[w].pc \notin {"done", "dead"} }

\* How a call of App.update_progress from the worker thread can end: the Tk
\* calls succeed, or the first of them raises (the worker is not the thread
\* of the Tk interpreter: RuntimeError, TclError).
ProgressOutcomes == {"ok", "raises"}

\* App.update_progress (lines 416-418).
update_progress(outcome, current, total, msg) ==
    /\ progress' = IF outcome = "ok" THEN [value |-> current, maximum |-> total]
                   ELSE progress
    /\ status' = IF outcome = "ok" THEN msg ELSE status

\* The count reported before a task (line 170).
StartCount(idx) == idx - 1

\* self.log(...).
Put(msg) == log_q' = log(log_q, msg)

\* The worker after it has put the outcome line of its task.
Outcome(wk, tag) == [wk EXCEPT !.outcomes = Append(@, <<wk.idx, tag>>), !.pc = "L197"]

\* The except clause (lines 194-195): log [ERROR] and go to finally.
Except(w, why) ==
    /\ Put(Line("ERROR", why, basename(Inp(w)), <<>>))
    /\ workers' = [workers EXCEPT ![w] = Outcome(@, "ERROR")]

\* Line 170: progress_cb(idx - 1, total, "Converting: ...").
WorkerProgressStart(w) ==
    /\ workers[w].pc = "L170"
    /\ \E o \in ProgressOutcomes :
         LET called == [workers[w] EXCEPT
                          !.emitted = Append(@, <<StartCount(workers[w].idx), Total(w)>>)]
         IN
         /\ update_progress(o, StartCount(workers[w].idx), Total(w),
                            Status("Converting", basename(Inp(w)), 0, 0))
         /\ IF o = "ok"
            THEN /\ workers' = [workers EXCEPT ![w] = [called EXCEPT !.pc = "L171"]]
                 /\ UNCHANGED log_q
            ELSE /\ Put(Line("ERROR", "progress_cb", basename(Inp(w)), <<>>))
                 /\ workers' = [workers EXCEPT ![w] = Outcome(called, "ERROR")]
    /\ UNCHANGED <<files, convert_btn, dialog, pollPending,
                   uiPc, log_box, envVars, nTasks, callVars>>

\* Lines 171-173: missing input.
WorkerCheckInput(w) ==
    /\ workers[w].pc = "L171"
    /\ IF Inp(w) \notin fsInputs
       THEN /\ Put(Line("SKIP", "Not found", Inp(w), <<>>))
            /\ workers' = [workers EXCEPT ![w] = Outcome(@, "SKIP")]
       ELSE /\ workers' = [workers EXCEPT ![w].pc = "L175"]
            /\ UNCHANGED log_q
    /\ UNCHANGED <<files, convert_btn, progress, status, dialog,
                   pollPending, uiPc, log_box, envVars, nTasks, callVars>>

\* Line 175: os.makedirs(os.path.dirname(outp), exist_ok=True).  An empty
\* name raises FileNotFoundError; an existing directory is accepted; a
\* missing one is created, or the creation fails (permissions, read-only
\* medium).
WorkerMakedirs(w) ==
    /\ workers[w].pc = "L175"
    /\ LET d == dirname(Outp(w)) IN
       \/ /\ d # "" /\ d \in fsDirs
          /\ workers' = [workers EXCEPT ![w].pc = "L176"]
          /\ UNCHANGED <<log_q, fsDirs>>
       \/ /\ d # "" /\ d \notin fsDirs
          /\ fsDirs' = fsDirs \cup {d}
          /\ workers' = [workers EXCEPT ![w].pc = "L176"]
          /\ UNCHANGED log_q
       \/ /\ d = "" \/ d \notin fsDirs
          /\ Except(w, "makedirs")
          /\ UNCHANGED fsDirs
    /\ UNCHANGED <<files, convert_btn, progress, status, dialog,
                   pollPending, uiPc, log_box, onPath, fsInputs, fsOut, nTasks, callVars>>

\* Mutation of SkipExisting: the overwrite flag is read the wrong way round.
SkipExisting_Inverted(exists, overw) == exists /\ overw

\* The test of line 176.
SkipExisting(exists, overw) == exists /\ ~overw

\* Lines 176-178: existing output without overwrite.
WorkerCheckOutput(w) ==
    /\ workers[w].pc = "L176"
    /\ IF SkipExisting(Outp(w) \in fsOut, workers[w].overwrite)
       THEN /\ Put(Line("SKIP", "Exists", Outp(w), <<>>))
            /\ workers' = [workers EXCEPT ![w] = Outcome(@, "SKIP")]
       ELSE /\ workers' = [workers EXCEPT ![w].pc = "L180"]
            /\ UNCHANGED log_q
    /\ UNCHANGED <<files, convert_btn, progress, status, dialog,
                   pollPending, uiPc, log_box, envVars, nTasks, callVars>>

\* Lines 180-188: probe, build the command, log it.
WorkerProbe(w) ==
    /\ workers[w].pc = "L180"
    /\ \E o \in ProbeOutcomes, tieUp \in BOOLEAN :
         LET r == has_audio_stream(o)
             probed == [workers[w] EXCEPT !.probe = o,
                                          !.probed = @ \cup {workers[w].idx}]
         IN
         IF r.raised
         THEN /\ Put(Line("ERROR", "has_audio_stream", basename(Inp(w)), <<>>))
              /\ workers' = [workers EXCEPT ![w] = Outcome(probed, "ERROR")]
         ELSE LET silent == ~r.value
                  cmd == build_ffmpeg_cmd(Inp(w), Outp(w), workers[w].profile,
                                          workers[w].speed, workers[w].normalize_audio,
                                          silent, tieUp)
              IN  /\ Put(Line("CMD", "", NoPath, cmd))
                  /\ workers' = [workers EXCEPT
                                   ![w] = [probed EXCEPT !.pc = "L189", !.silent = silent]]
    /\ UNCHANGED <<files, convert_btn, progress, status, dialog,
                   pollPending, uiPc, log_box, envVars, nTasks, callVars>>

\* Line 189, run_cmd line 28: Popen starts the encoder, or raises.
WorkerEncodeStart(w) ==
    /\ workers[w].pc = "L189"
    /\ \/ /\ workers' = [workers EXCEPT ![w].pc = "L189wait",
                                        ![w].encoded = @ \cup {workers[w].idx}]
          /\ UNCHANGED log_q
       \/ Except(w, "run_cmd")
    /\ UNCHANGED <<files, convert_btn, progress, status, dialog,
                   pollPending, uiPc, log_box, envVars, nTasks, callVars>>

\* How the encoder can end: exit code 0 with the output written, a non-zero
\* code with nothing written, a non-zero code with a partial output left.
EncodeOutcomes == {"ok", "failed", "failed_partial"}

\* Lines 189-193, run_cmd lines 29-30: communicate() returns; log the result.
WorkerEncodeExit(w) ==
    /\ workers[w].pc = "L189wait"
    /\ \E o \in EncodeOutcomes :
         /\ fsOut' = IF o = "failed" THEN fsOut ELSE fsOut \cup {Outp(w)}
         /\ IF o = "ok"
            THEN /\ Put(Line("OK", "", Outp(w), <<>>))
                 /\ workers' = [workers EXCEPT ![w] = Outcome(@, "OK")]
            ELSE /\ Put(Line("ERROR", "exit code", basename(Inp(w)), <<>>))
                 /\ workers' = [workers EXCEPT ![w] = Outcome(@, "ERROR")]
    /\ UNCHANGED <<files, convert_btn, progress, status, dialog,
                   pollPending, uiPc, log_box, onPath, fsInputs, fsDirs, nTasks, callVars>>

\* Line 197, in the finally clause: progress_cb(idx, total, "Done i/n").  An
\* exception here is raised outside any try block: it ends run and the thread.
WorkerProgressDone(w) ==
    /\ workers[w].pc = "L197"
    /\ \E o \in ProgressOutcomes :
         /\ update_progress(o, workers[w].idx, Total(w),
                            Status("Done", NoPath, workers[w].idx, Total(w)))
         /\ workers' = [workers EXCEPT
              ![w].emitted = Append(@, <<workers[w].idx, Total(w)>>),
              ![w].probe = "none",
              ![w].silent = FALSE,
              ![w].pc  = IF o # "ok" THEN "dead"
                         ELSE IF workers[w].idx = Total(w) THEN "done" ELSE "L170",
              ![w].idx = IF o = "ok" /\ workers[w].idx < Total(w) THEN @ + 1 ELSE @]
    /\ UNCHANGED <<files, convert_btn, dialog, pollPending,
                   uiPc, log_q, log_box, envVars, nTasks, callVars>>

----------------------------------------------------------------------------
\* App: the handlers of the UI thread.  A handler runs when the event loop is
\* free (uiPc = "idle"); button events are not delivered while a modal
\* message box is open, timers are.  The file list is not edited while a
\* behaviour runs: every list is an initial state.

\* The lists add_files (lines 357-367) can build: it appends a path only if
\* it is not in the list yet, so a list holds distinct paths.
RECURSIVE InjSeqs(_, _)
InjSeqs(S, n) ==
    IF n = 0 THEN {<<>>}
    ELSE LET shorter == InjSeqs(S, n - 1)
         IN  shorter \cup { Append(q, x) : q \in { t \in shorter : Len(t) = n - 1 },
                                           x \in S }
Range(q) == { q[i] : i \in 1..Len(q) }
Picks == { q \in InjSeqs(Inputs, Cardinality(Inputs)) : Cardinality(Range(q)) = Len(q) }

\* The user closes the message box.
dismiss_dialog ==
    /\ dialog # "none"
    /\ dialog' = "none"
    /\ UNCHANGED <<files, convert_btn, progress, status,
                   pollPending, uiPc, log_q, log_box, workers, envVars, obsVars, callVars>>

\* The task list of convert (lines 386-389).
TasksOf(fs, out_root) == [i \in 1..Len(fs) |-> <<fs[i], suggest_output_path(fs[i], out_root)>>]

\* Mutation of ButtonWhileRunning: the button is left enabled.
ButtonWhileRunning_Enabled == "normal"

\* The state convert leaves the button in (line 391).
ButtonWhileRunning == "disabled"

\* What convert does once the checks have passed (lines 386-414), with the
\* values it reads from the option widgets.
StartBatch(fs, out_root, overw) ==
    /\ convert_btn' = ButtonWhileRunning
    /\ progress' = [value |-> 0, maximum |-> Len(fs)]
    /\ status' = Status("Starting", NoPath, 0, 0)
    /\ workers' = Append(SelectSeq(workers, LAMBDA wk : wk.pc \notin {"done", "dead"}),
                         NewWorker(TasksOf(fs, out_root), "Baseline", "1.0x", "1.0",
                                   FALSE, overw))
    /\ pollPending' = pollPending + 1
    /\ nTasks' = nTasks + Len(fs)

\* convert (lines 378-414), the command of the Convert button.  out_dir and
\* overwrite are Tk variables bound to an entry and a checkbox: what convert
\* reads from them is whatever the user has left there.
convert ==
    /\ uiPc = "idle" /\ dialog = "none"
    /\ convert_btn = "normal"
    /\ \/ /\ files = <<>>
          /\ dialog' = "No files"
          /\ UNCHANGED <<convert_btn, progress, status, pollPending, workers, nTasks>>
       \/ /\ files # <<>>
          /\ ~which_ffmpeg
          /\ dialog' = "Missing ffmpeg"
          /\ UNCHANGED <<convert_btn, progress, status, pollPending, workers, nTasks>>
       \/ /\ files # <<>>
          /\ which_ffmpeg
          /\ nTasks + Len(files) <= MaxTasks
          /\ \E d \in OutDirs, overw \in BOOLEAN : StartBatch(files, d, overw)
          /\ UNCHANGED dialog
    /\ UNCHANGED <<files, uiPc, log_q, log_box, envVars, callVars>>

\* The test of poll_done (line 409).
BatchDone(p) == p.value >= p.maximum

\* poll_done (lines 408-413): re-enable the button, or poll again.
poll_done ==
    /\ uiPc = "idle"
    /\ pollPending > 0
    /\ IF BatchDone(progress)
       THEN /\ convert_btn' = "normal"
            /\ status' = Status("All done", NoPath, 0, 0)
            /\ pollPending' = pollPending - 1
       ELSE UNCHANGED <<convert_btn, status, pollPending>>
    /\ UNCHANGED <<files, progress, dialog, uiPc, log_q,
                   log_box, workers, envVars, obsVars, callVars>>

\* drain_log (lines 420-428): one get_nowait that returns a line.
drain_get ==
    /\ uiPc \in {"idle", "draining"}
    /\ log_q # <<>>
    /\ log_box' = Append(log_box, Head(log_q))
    /\ log_q' = Tail(log_q)
    /\ uiPc' = "draining"
    /\ UNCHANGED <<files, convert_btn, progress, status, dialog,
                   pollPending, workers, envVars, obsVars, callVars>>

\* drain_log: get_nowait raises queue.Empty; the timer is set again.
drain_empty ==
    /\ uiPc = "draining"
    /\ log_q = <<>>
    /\ uiPc' = "idle"
    /\ UNCHANGED <<files, convert_btn, progress, status, dialog,
                   pollPending, log_q, log_box, workers, envVars, obsVars, callVars>>

----------------------------------------------------------------------------
\* The application.

NoCall == [speed |-> 0, preset |-> "", custom |-> "", profile |-> "Baseline",
           loud_norm |-> FALSE, add_silence |-> FALSE, tieUp |-> FALSE]
NoRet  == [chain |-> <<>>, cmd |-> <<>>]

\* App.__init__ (lines 202-310), and the file list the user has assembled.
InitApp ==
    /\ files \in { q \in Picks : Len(q) <= MaxTasks }
    /\ convert_btn = "normal"
    /\ progress = [value |-> 0, maximum |-> 100]
    /\ status = Status("Idle", NoPath, 0, 0)
    /\ pollPending = 0
    /\ uiPc = "idle"
    /\ log_q = <<>>
    /\ log_box = <<>>
    /\ workers = <<>>
    /\ nTasks = 0

InitCallNone ==
    /\ callPc = "none"
    /\ callArgs = NoCall
    /\ callRet = NoRet

\* The machine the program starts on: either tool may be missing; one of the
\* inputs the user can select has been deleted; no output exists yet.
Init ==
    /\ InitApp
    /\ InitCallNone
    /\ onPath \in {{"ffmpeg", "ffprobe"}, {"ffmpeg"}, {}}
    /\ fsInputs = { i \in Inputs : i.base = "clip" }
    /\ fsOut = {}
    /\ fsDirs = {"home"}
    /\ dialog = IF which_ffmpeg THEN "none" ELSE "ffmpeg not found"

WorkerStep(w) ==
    \/ WorkerProgressStart(w)
    \/ WorkerCheckInput(w)
    \/ WorkerMakedirs(w)
    \/ WorkerCheckOutput(w)
    \/ WorkerProbe(w)
    \/ WorkerEncodeStart(w)
    \/ WorkerEncodeExit(w)
    \/ WorkerProgressDone(w)

Next ==
    \/ dismiss_dialog
    \/ convert
    \/ poll_done
    \/ drain_get
    \/ drain_empty
    \/ \E w \in Workers : WorkerStep(w)

Spec == Init /\ [][Next]_vars

----------------------------------------------------------------------------
\* The batch control alone: Next without the log view.

NextBatch ==
    \/ dismiss_dialog
    \/ convert
    \/ poll_done
    \/ \E w \in Workers : WorkerStep(w)

SpecBatch == Init /\ [][NextBatch]_vars

----------------------------------------------------------------------------
\* One batch: the state convert leaves behind, for every file list and every
\* setting of the output folder and the overwrite box.  The output of the
\* clips may be there already, left by an earlier run, if the output folder
\* exists ("" names the working directory).
InitRun ==
    /\ InitCallNone
    /\ onPath = {"ffmpeg", "ffprobe"}
    /\ fsInputs = { i \in Inputs : i.base = "clip" }
    /\ fsDirs = {"home"}
    /\ dialog = "none"
    /\ uiPc = "idle"
    /\ log_q = <<>>
    /\ log_box = <<>>
    /\ \E fs \in Picks, d \in OutDirs, overw \in BOOLEAN :
         /\ fs # <<>> /\ Len(fs) <= MaxTasks
         /\ files = fs
         /\ fsOut \in {{}} \cup { {suggest_output_path(i, d)} :
                                  i \in { j \in fsInputs : d \in fsDirs \cup {""} } }
         /\ convert_btn = ButtonWhileRunning
         /\ progress = [value |-> 0, maximum |-> Len(fs)]
         /\ status = Status("Starting", NoPath, 0, 0)
         /\ workers = <<NewWorker(TasksOf(fs, d), "Baseline", "1.0x", "1.0", FALSE, overw)>>
         /\ pollPending = 1
         /\ nTasks = Len(fs)

NextRun ==
    \/ poll_done
    \/ drain_get
    \/ drain_empty
    \/ \E w \in Workers : WorkerStep(w)

SpecRun == InitRun /\ [][NextRun]_vars

----------------------------------------------------------------------------
\* The pure functions on their own.  The application is idle and stays so.

InitNoApp ==
    /\ files = <<>>
    /\ convert_btn = "normal"
    /\ progress = [value |-> 0, maximum |-> 100]
    /\ status = Status("Idle", NoPath, 0, 0)
    /\ dialog = "none"
    /\ pollPending = 0
    /\ uiPc = "idle"
    /\ log_q = <<>>
    /\ log_box = <<>>
    /\ workers = <<>>
    /\ nTasks = 0
    /\ onPath = {"ffmpeg", "ffprobe"}
    /\ fsInputs = {}
    /\ fsOut = {}
    /\ fsDirs = {"home"}

\* The speeds build_atempo_expr is applied to: the grid 0.0005, 0.001, ...,
\* and a few values off it: non-positive ones and ones that need several
\* halvings.
TempoSpeeds ==
    { k * TempoStep : k \in 1..MaxTempoK }
    \cup { j * SpeedDen : j \in {-1, 0, 8, 100} }

InitTempo ==
    /\ InitNoApp
    /\ callPc = "ready"
    /\ callRet = NoRet
    /\ \E s \in TempoSpeeds : callArgs = [NoCall EXCEPT !.speed = s]

\* One call of build_atempo_expr.
call_build_atempo_expr ==
    /\ callPc = "ready"
    /\ \E tieUp \in BOOLEAN :
         /\ callArgs' = [callArgs EXCEPT !.tieUp = tieUp]
         /\ callRet' = [NoRet EXCEPT !.chain = build_atempo_expr(callArgs.speed, tieUp)]
    /\ callPc' = "returned"
    /\ UNCHANGED <<appVars, workers, envVars, obsVars>>

NextTempo == call_build_atempo_expr

SpecTempo == InitTempo /\ [][NextTempo]_vars

\* The option combinations the command is built for: every preset, and the
\* custom preset with every text of the entry.
InitCmd ==
    /\ InitNoApp
    /\ callPc = "ready"
    /\ callRet = NoRet
    /\ \E i \in 1..Len(SPEED_PRESETS), c \in CustomInputs, pr \in ProfileNames,
          ln \in BOOLEAN, sil \in BOOLEAN :
         /\ SPEED_PRESETS[i] # "Custom" => c = "1.0"
         /\ callArgs = [NoCall EXCEPT !.preset = SPEED_PRESETS[i], !.custom = c,
                                      !.profile = pr, !.loud_norm = ln,
                                      !.add_silence = sil]

\* ConverterWorker.__init__ resolves the speed (line 156).
call_parse_speed ==
    /\ callPc = "ready"
    /\ callArgs' = [callArgs EXCEPT !.speed = parse_speed(callArgs.preset, callArgs.custom)]
    /\ callPc' = "parsed"
    /\ UNCHANGED <<appVars, workers, envVars, obsVars, callRet>>

\* One call of build_ffmpeg_cmd with the resolved speed (lines 181-187).
call_build_ffmpeg_cmd ==
    /\ callPc = "parsed"
    /\ \E tieUp \in BOOLEAN :
         /\ callArgs' = [callArgs EXCEPT !.tieUp = tieUp]
         /\ callRet' = [NoRet EXCEPT !.cmd =
                          build_ffmpeg_cmd([dir |-> "a", base |-> "clip", ext |-> "mov"],
                                           [dir |-> "home", base |-> "clip", ext |-> "_ppt.mp4"],
                                           PROFILES[callArgs.profile], callArgs.speed,
                                           callArgs.loud_norm, callArgs.add_silence, tieUp)]
    /\ callPc' = "returned"
    /\ UNCHANGED <<appVars, workers, envVars, obsVars>>

NextCmd ==
    \/ call_parse_speed
    \/ call_build_ffmpeg_cmd

SpecCmd == InitCmd /\ [][NextCmd]_vars

----------------------------------------------------------------------------
\* Properties of build_atempo_expr (SpecTempo).

\* A rational in lowest terms.
Frac(n, d) == [num |-> n \div Gcd(n, d), den |-> d \div Gcd(n, d)]

\* The product of a chain of factors given in thousandths.
RECURSIVE ChainProduct(_)
ChainProduct(chain) ==
    IF chain = <<>> THEN [num |-> 1, den |-> 1]
    ELSE LET f == Frac(Head(chain), Milli)
             t == ChainProduct(Tail(chain))
         IN  Frac(f.num * t.num, f.den * t.den)

\* |p - s| <= 0.5% of s, for the rationals p and s > 0.
WithinHalfPercent(p, s) ==
    Abs(p.num * s.den - s.num * p.den) * 200 <= s.num * p.den

\* C8: for every speed s > 0, the chain build_atempo_expr returns is not
\* empty, each of its factors lies in [0.5, 2.0], and the product of the
\* factors is s within 0.5% relative tolerance; for s = 1.0 the chain is the
\* single factor 1.0.
C8_TempoChain ==
    (callPc = "returned" /\ callArgs.speed > 0) =>
        LET chain == callRet.chain IN
        /\ chain # <<>>
        /\ \A i \in 1..Len(chain) : Milli \div 2 <= chain[i] /\ chain[i] <= 2 * Milli
        /\ WithinHalfPercent(ChainProduct(chain), Frac(callArgs.speed, SpeedDen))
        /\ callArgs.speed = SpeedDen => chain = <<Milli>>

\* A speed of 2.5 has been decomposed into 2.0 and 1.25.
C8_Witness ==
    /\ callPc = "returned"
    /\ callArgs.speed = (SpeedDen \div 2) * 5
    /\ callRet.chain = <<2 * Milli, Milli + Milli \div 4>>

----------------------------------------------------------------------------
\* Properties of build_ffmpeg_cmd (SpecCmd).

HasTok(cmd, t) == \E i \in 1..Len(cmd) : cmd[i].kind = "tok" /\ cmd[i].tok = t

\* The filters of the argument that follows the option opt, if there is one.
FiltersOf(cmd, opt) ==
    IF \E i \in 1..(Len(cmd) - 1) : cmd[i] = Tok(opt)
    THEN cmd[(CHOOSE i \in 1..(Len(cmd) - 1) : cmd[i] = Tok(opt)) + 1].filt
    ELSE <<>>

\* Some argument of the command holds a tempo or a loudness stage.
HasAudioStage(cmd) ==
    \E i \in 1..Len(cmd) : \E j \in 1..Len(cmd[i].filt) :
        cmd[i].filt[j].name \in {"atempo=", "loudnorm=I=-16:TP=-1.5:LRA=11"}

SilentSource == "anullsrc=channel_layout=stereo:sample_rate=48000"

\* The part of C9 about add_silence = true, and about the synthesized source
\* with add_silence = false.
CmdSilenceShape(cmd, add_silence) ==
    IF add_silence
    THEN /\ HasTok(cmd, SilentSource)
         /\ HasTok(cmd, "-shortest")
         /\ ~HasTok(cmd, "-filter:a")
         /\ ~HasAudioStage(cmd)
    ELSE /\ ~HasTok(cmd, SilentSource)
         /\ ~HasTok(cmd, "-shortest")

\* C9 as stated: with add_silence = false there is an audio filter argument
\* exactly when normalize-audio is set or the speed is not 1.0.
C9_AsStated ==
    callPc = "returned" =>
        /\ CmdSilenceShape(callRet.cmd, callArgs.add_silence)
        /\ ~callArgs.add_silence =>
              (HasTok(callRet.cmd, "-filter:a")
                 <=> (callArgs.loud_norm \/ callArgs.speed # SpeedDen))

\* C9: for every profile, speed and normalize-audio flag, the command built
\* with add_silence = true holds the synthesized silent source and -shortest
\* and no audio filter argument (no tempo stage, no loudness stage); built
\* with add_silence = false it holds no synthesized source and no -shortest,
\* and it holds an audio filter argument exactly when normalize-audio is set
\* or the speed is not within the relative tolerance 1e-6 of 1.0; that
\* argument holds the loudness stage iff normalize-audio is set and the tempo
\* stages iff the speed is outside the tolerance.
C9_AudioArguments ==
    callPc = "returned" =>
        LET cmd == callRet.cmd
            fa  == FiltersOf(cmd, "-filter:a")
            off == ~IsCloseSpeedOne(callArgs.speed)
        IN
        /\ CmdSilenceShape(cmd, callArgs.add_silence)
        /\ ~callArgs.add_silence =>
              /\ HasTok(cmd, "-filter:a") <=> (callArgs.loud_norm \/ off)
              /\ (\E j \in 1..Len(fa) : fa[j].name = "loudnorm=I=-16:TP=-1.5:LRA=11")
                    <=> callArgs.loud_norm
              /\ (\E j \in 1..Len(fa) : fa[j].name = "atempo=") <=> off

\* A command has been built with add_silence = true for a normalized 1.5x
\* conversion: the case in which both audio stages are left out.
C9_Witness ==
    /\ callPc = "returned"
    /\ callArgs.add_silence
    /\ callArgs.loud_norm
    /\ callArgs.speed = (SpeedDen \div 2) * 3
    /\ HasTok(callRet.cmd, "-shortest")

----------------------------------------------------------------------------
\* Properties of ConverterWorker.run (SpecRun).

\* The thread of worker w has ended.
Ended(w) == workers[w].pc \in {"done", "dead"}

\* The lines put so far, in the order they were put, if the queue is a FIFO.
Lines == log_box \o log_q

\* C1 as stated: after the i-th task has been handled the update (i, total)
\* has been emitted, and the last update of a batch that is over is
\* (total, total).
C1_AsStated ==
    \A w \in Workers :
        /\ \A i \in 1..(workers[w].idx - 1) : <<i, Total(w)>> \in Range(workers[w].emitted)
        /\ Ended(w) =>
              /\ workers[w].emitted # <<>>
              /\ workers[w].emitted[Len(workers[w].emitted)] = <<Total(w), Total(w)>>

\* C2 as stated: the outcome lines of a worker are one per task, in task
\* order, and when the batch is over every task has its line.
C2_AsStated ==
    \A w \in Workers :
        LET out == workers[w].outcomes IN
        /\ \A j \in 1..Len(out) : out[j][1] = j /\ out[j][2] \in {"SKIP", "OK", "ERROR"}
        /\ Len(out) \in {workers[w].idx - 1, workers[w].idx}
        /\ Ended(w) => Len(out) = Total(w)

\* C3 as stated: no fault in the handling of task i keeps task i+1 from being
\* started.  A worker whose thread has ended has gone through its whole list:
\* it has started every task (the update (i-1, total) of line 170).
C3_AsStated ==
    \A w \in Workers :
        Ended(w) =>
            /\ workers[w].idx = Total(w)
            /\ \A i \in 1..Total(w) : <<i - 1, Total(w)>> \in Range(workers[w].emitted)

\* A worker thread has ended with a task of its list never started.
C3_Witness ==
    \E w \in Workers : workers[w].pc = "dead" /\ workers[w].idx < Total(w)

\* The steps of run that come before the probe.
BeforeProbe == {"L170", "L171", "L175", "L176"}

\* Worker w is handling a task whose output existed when the task was
\* reached, and overwrite is off.  (Outputs are never deleted, so an output
\* that exists before the probe existed when the task was reached.)
OutputInTheWay(w) ==
    /\ ~workers[w].overwrite
    /\ workers[w].pc \in BeforeProbe
    /\ Outp(w) \in fsOut

\* What a step may do to worker w while OutputInTheWay(w): no probe, no
\* encoder, and no outcome line other than the ones allowed.
NoToolStep(w, allowed) ==
    LET wk == workers[w]
        nx == workers'[w]
    IN  /\ nx.probed = wk.probed
        /\ nx.encoded = wk.encoded
        /\ nx.pc \in BeforeProbe \cup {"L197"}
        /\ nx.outcomes # wk.outcomes =>
              /\ nx.outcomes = Append(wk.outcomes, nx.outcomes[Len(nx.outcomes)])
              /\ nx.outcomes[Len(nx.outcomes)] \in allowed
              /\ Lines' = Append(Lines, Lines'[Len(Lines')])
              /\ Lines'[Len(Lines')].tag = nx.outcomes[Len(nx.outcomes)][2]
        /\ nx.pc = "L197" => nx.outcomes # wk.outcomes

\* C4 as stated: with overwrite off, a task whose output exists when it is
\* reached gets a SKIP line, and neither the probe nor the encoder runs.
C4_AsStated ==
    [][\A w \in Workers :
          OutputInTheWay(w) => NoToolStep(w, {<<workers[w].idx, "SKIP">>})]_vars

\* C4: with overwrite off, for a task whose output exists when the task is
\* reached, neither the probe nor the encoder is invoked, and the task gets
\* exactly one outcome line: a SKIP line, or an ERROR line if a fault occurs
\* before the existence test: the progress update of line 170 raises, or
\* makedirs does (line 175; it always does for an empty folder name).
C4_SkipExisting ==
    [][\A w \in Workers :
          OutputInTheWay(w) =>
              /\ NoToolStep(w, {<<workers[w].idx, "SKIP">>, <<workers[w].idx, "ERROR">>})
              /\ workers'[w].outcomes # workers[w].outcomes
                 /\ workers'[w].outcomes[Len(workers'[w].outcomes)][2] = "ERROR"
                 => workers[w].pc \in {"L170", "L175"}]_vars

\* The second task of a batch has been skipped because the first one wrote
\* the output both map to; only the first was probed and encoded.
C4_Witness ==
    \E w \in Workers :
        /\ ~workers[w].overwrite
        /\ workers[w].outcomes = <<<<1, "OK">>, <<2, "SKIP">>>>
        /\ workers[w].tasks[1][2] = workers[w].tasks[2][2]
        /\ workers[w].tasks[2][1] \in fsInputs
        /\ workers[w].probed = {1}
        /\ workers[w].encoded = {1}

\* C6 as stated: whatever way the probe fails, has_audio_stream returns
\* False: the task goes down the silence path, and the failure never shows
\* as an ERROR line of the task.
C6_AsStated ==
    /\ \A w \in Workers :
          workers[w].probe \in ProbeFailures =>
              /\ workers[w].silent
              /\ <<workers[w].idx, "ERROR">> \in Range(workers[w].outcomes)
                    => workers[w].idx \in workers[w].encoded
    /\ \A i \in 1..Len(Lines) : Lines[i].why # "has_audio_stream"

\* The probe could not be started and the task ended with an ERROR line.
C6_Witness ==
    \E w \in Workers :
        /\ workers[w].probe = "spawn_error"
        /\ <<workers[w].idx, "ERROR">> \in Range(workers[w].outcomes)
        /\ workers[w].idx \notin workers[w].encoded

----------------------------------------------------------------------------
\* Properties of the log channel (SpecRun).

\* C10: the lines of the log view followed by the lines still in the queue
\* are the lines put, in the order they were put (line number i is the i-th
\* line): the view is a prefix of what was put, nothing is lost, doubled or
\* out of order; and a worker that has not ended can always take its next
\* step, whatever the queue holds and whatever the UI thread is doing.
C10_LogFifo ==
    /\ \A i \in 1..Len(Lines) : Lines[i].n = i
    /\ \A w \in Alive : ENABLED WorkerStep(w)

\* The worker has put a line while an earlier line was still in the queue
\* and the UI thread was inside drain_log with part of the log in the view.
C10_Witness ==
    /\ Len(log_box) >= 2
    /\ Len(log_q) >= 2
    /\ uiPc = "draining"
    /\ Alive # {}

----------------------------------------------------------------------------
\* Properties of the batch control (SpecBatch).

\* C5: tasks are processed in list order and at most one encoder process runs
\* at any time.  In every step: at most one encoder is running afterwards; a
\* worker stays on its task or moves to the next one of its list; an encoder
\* is started only while none is running, for the task at hand, after the
\* encoders of all earlier tasks; and convert starts a worker only when every
\* worker started before has ended with its whole list processed.
C5_Sequential ==
    [][/\ Cardinality(Encoding') <= 1
       /\ nTasks' # nTasks =>
             \A w \in Workers : workers[w].pc = "done" /\ workers[w].idx = Total(w)
       /\ nTasks' = nTasks =>
             \A w \in Workers :
                /\ workers'[w].idx \in {workers[w].idx, workers[w].idx + 1}
                /\ workers'[w].encoded # workers[w].encoded =>
                      /\ Encoding = {}
                      /\ workers'[w].encoded = workers[w].encoded \cup {workers[w].idx}
                      /\ \A i \in workers[w].encoded : i < workers[w].idx]_vars

\* Convert has been pressed a second time, after the first batch was over,
\* and the encoder of the second batch is running.
C5_Witness ==
    /\ Len(files) = 1
    /\ nTasks = 2
    /\ Len(workers) = 1
    /\ Encoding = {1}

\* The probing tool or the encoding tool is not on the search path.
ToolsMissing == ~({"ffmpeg", "ffprobe"} \subseteq onPath)

\* C7: when the probing tool or the encoding tool is not on the search path,
\* no batch ever starts: there is no worker, no task has been handed over, no
\* line has been logged, no poll is scheduled, the Convert button is enabled
\* and the progress state is the one of construction.
C7_NoBatchWithoutTools ==
    ToolsMissing =>
        /\ workers = <<>>
        /\ nTasks = 0
        /\ Lines = <<>>
        /\ pollPending = 0
        /\ convert_btn = "normal"
        /\ progress = [value |-> 0, maximum |-> 100]
        /\ status = Status("Idle", NoPath, 0, 0)

\* Convert has been pressed with files in the list and ffprobe missing: the
\* error box is open.
C7_Witness ==
    /\ onPath = {"ffmpeg"}
    /\ files # <<>>
    /\ dialog = "Missing ffmpeg"

====
